---- MODULE Spec2Model ----
(***************************************************************************)
(* Model of aces_ocio/colorspaces/fujifilm.py: create_FLog (the colour     *)
(* space assembler with its nested F-Log evaluator and 1D LUT sampler) and *)
(* create_colorspaces (the batch entry point).                             *)
(*                                                                         *)
(* Python strings are sequences of one-character strings, so that          *)
(* str.format, str.replace and os.path.join are computed, not assumed.     *)
(* Python floats are fixed-point integers in units of 10^-6 (Scale); the   *)
(* argument of the evaluator additionally carries the next nine decimal    *)
(* digits, so that the cutover constant cut2 is represented exactly.       *)
(***************************************************************************)
EXTENDS Integers, Sequences, FiniteSets, TLC

\* pc: "idle", "writing" (inside write_SPI_1D, line 101), "line154" (in
\*     create_colorspaces, between its two calls), "returned", "raised"
\* entry: the function the caller called
\* batch: the arguments of create_colorspaces
\* gamut .. aliases, cs, data: the frame of the running create_FLog
\* colorspaces: the list create_colorspaces builds
\* flogCalls, writerCalls: the calls of create_FLog and of write_SPI_1D made
\*     since the caller's call
\* writerResults: how each finished call of write_SPI_1D ended
\* result, exc: what the caller gets
\* f_log, linear: the frame of FLog_to_linear when it is exercised alone
VARIABLES pc, entry, batch, gamut, transfer_function, lut_directory,
          lut_resolution_1D, aliases, cs, data, colorspaces, writerCalls,
          writerResults, flogCalls, result, exc, f_log, linear

vars == <<pc, entry, batch, gamut, transfer_function, lut_directory,
          lut_resolution_1D, aliases, cs, data, colorspaces, writerCalls,
          writerResults, flogCalls, result, exc, f_log, linear>>

(***************************************************************************)
(* Bounds of the model.                                                    *)
(***************************************************************************)
\* largest lut_resolution_1D tried
MaxRes == 5
\* resolutions down to -NegRes are tried
NegRes == 1
\* the evaluator is tried on k * GridStep for k in -GridLow .. GridHigh
GridHigh == 60
GridLow == 20

(***************************************************************************)
(* Strings.                                                                *)
(***************************************************************************)
None == <<"None">>

Empty == <<>>

FLogName == <<"F", "-", "L", "o", "g">>

FGamutName == <<"F", "-", "G", "a", "m", "u", "t">>

\* names that are not the recognized ones: they carry hyphens and spaces
SLog3Name == <<"S", "-", "L", "o", "g", " ", "3">>

WideGamutName == <<"F", " ", "G", "a", "m", "u", "t", "-", "C">>

Names == {Empty, FLogName, FGamutName, SLog3Name, WideGamutName}

Directories == {Empty, <<"l", "u", "t", "s">>, <<"/", "o", "/">>}

AliasLists == {<<>>, <<"flog">>}

\* str.replace(old, new) for a one-character old
RECURSIVE replace(_, _, _)
replace(s, old, new) ==
    IF s = <<>> THEN <<>>
    ELSE (IF Head(s) = old THEN new ELSE <<Head(s)>>) \o replace(Tail(s), old, new)

\* os.path.join(a, b) for a relative b (posixpath)
pathjoin(a, b) ==
    IF a = <<>> \/ a[Len(a)] = "/" THEN a \o b ELSE a \o <<"/">> \o b

(***************************************************************************)
(* Numbers.                                                                *)
(***************************************************************************)
Scale == 10^6

\* k decimal digits of r / den, for 0 <= r < den
RECURSIVE Frac(_, _, _)
Frac(r, den, k) ==
    IF k = 0 THEN 0
    ELSE ((r * 10) \div den) * 10^(k - 1) + Frac((r * 10) % den, den, k - 1)

\* x / y in units of 10^-6, for y > 0
DivF(x, y) == (x \div y) * Scale + Frac(x % y, y, 6)

\* x * y in units of 10^-6, rounded, for x, y >= 0
MulF(x, y) ==
    LET xh == x \div 1000
        xl == x % 1000
        yh == y \div 1000
        yl == y % 1000
    IN  xh * yh + (xh * yl + xl * yh + (xl * yl + 500) \div 1000 + 500) \div 1000

\* the true division i / n of two ints (from __future__ import division):
\* m is the quotient in units of 10^-6, r its next nine decimal digits
TrueDiv(i, n) ==
    [m |-> (i * Scale) \div n, r |-> Frac((i * Scale) % n, n, 9)]

\* x >= y on such numbers
GE(x, y) == x.m > y.m \/ (x.m = y.m /\ x.r >= y.r)

RECURSIVE Taylor(_, _, _)
Taylor(term, z, k) ==
    IF k > 8 THEN 0 ELSE term + Taylor((2 * MulF(term, z) + k) \div (2 * k), z, k + 1)

\* ln 10 in units of 10^-6
Ln10 == 2302585

\* pow(10., x): 10^x = 10^floor(x) * exp(frac(x) * ln 10), the exponential by
\* its Taylor series at an eighth of the argument, squared three times
Pow10(x) ==
    LET n == x \div Scale
        y == MulF(x % Scale, Ln10)
        e1 == Taylor(Scale, y \div 8, 1)
        e2 == MulF(e1, e1)
        e4 == MulF(e2, e2)
        e8 == MulF(e4, e4)
    IN  IF n >= 0 THEN e8 * 10^n ELSE e8 \div 10^(0 - n)

\* storing a float in array.array('f'): 24 significant bits are kept
RECURSIVE Shift(_, _)
Shift(mag, k) == IF mag < 2^(24 + k) THEN k ELSE Shift(mag, k + 1)

ToFloat32(v) ==
    LET mag == IF v < 0 THEN 0 - v ELSE v
        k == Shift(mag, 0)
        q == IF k = 0 THEN mag ELSE ((mag + 2^(k - 1)) \div 2^k) * 2^k
    IN  IF v < 0 THEN 0 - q ELSE q

(***************************************************************************)
(* FLog_to_linear, the nested function of create_FLog.                     *)
(***************************************************************************)
FLog_a == 555556
FLog_b == 9468
FLog_c == 344676
FLog_d == 790453
FLog_e == 8735631
FLog_f == 92864
cut2 == [m |-> 100537, r |-> 775223865]

\* FLog_to_linear with the cutover compared by > instead of >=
FLog_to_linear_gt(x) ==
    IF GE(x, cut2) /\ x # cut2
    THEN DivF(Pow10(DivF(x.m - FLog_d, FLog_c)), FLog_a) - DivF(FLog_b, FLog_a)
    ELSE DivF(x.m - FLog_f, FLog_e)

FLog_to_linear(x) ==
    IF GE(x, cut2)
    THEN DivF(Pow10(DivF(x.m - FLog_d, FLog_c)), FLog_a) - DivF(FLog_b, FLog_a)
    ELSE DivF(x.m - FLog_f, FLog_e)

(***************************************************************************)
(* create_FLog.                                                            *)
(***************************************************************************)
\* name with the two overrides in the other order
name_linear_last(g, t) ==
    LET n0 == t \o <<" ", "-", " ">> \o g
        n1 == IF g = Empty
              THEN <<"C", "u", "r", "v", "e", " ", "-", " ">> \o t
              ELSE n0
    IN  IF t = Empty
        THEN <<"L", "i", "n", "e", "a", "r", " ", "-", " ">> \o g
        ELSE n1

\* '{0} - {1}'.format(t, g) and its two overrides
name(g, t) ==
    LET n0 == t \o <<" ", "-", " ">> \o g
        n1 == IF t = Empty
              THEN <<"L", "i", "n", "e", "a", "r", " ", "-", " ">> \o g
              ELSE n0
    IN  IF g = Empty
        THEN <<"C", "u", "r", "v", "e", " ", "-", " ">> \o t
        ELSE n1

\* the attributes of a fresh ColorSpace(name)
ColorSpace(nm) ==
    [name |-> nm, description |-> None, aliases |-> <<>>,
     equality_group |-> Empty, family |-> None, is_data |-> FALSE,
     aces_transform_id |-> None, allocation_type |-> "None",
     allocation_vars |-> <<>>, to_reference_transforms |-> <<>>,
     from_reference_transforms |-> <<>>]

\* transform_id with the spaces of the gamut removed instead of replaced
transform_id_stripped(g, t) ==
    <<"I", "D", "T", ".", "F", "u", "j", "i", "f", "i", "l", "m", ".">>
    \o replace(t, "-", <<>>)
    \o <<"_">>
    \o replace(replace(g, "-", <<>>), " ", <<>>)
    \o <<"_", "1", "0", "i", ".", "a", "1", ".", "v", "1">>

\* 'IDT.Fujifilm.{0}_{1}_10i.a1.v1'.format(...)
transform_id(g, t) ==
    <<"I", "D", "T", ".", "F", "u", "j", "i", "f", "i", "l", "m", ".">>
    \o replace(t, "-", <<>>)
    \o <<"_">>
    \o replace(replace(g, "-", <<>>), " ", <<"_">>)
    \o <<"_", "1", "0", "i", ".", "a", "1", ".", "v", "1">>

\* has_transform_id with "or" for "and"
has_transform_id_either(g, t) == g # Empty \/ t # Empty

\* whether the transform id is set: "if gamut and transfer_function"
has_transform_id(g, t) == g # Empty /\ t # Empty

\* lines 52-93: the descriptor before any transform is appended
Prologue(g, t, al) ==
    LET c0 == [ColorSpace(name(g, t)) EXCEPT
                  !.description = name(g, t),
                  !.aliases = al,
                  !.equality_group = Empty,
                  !.family = <<"I", "n", "p", "u", "t", "/", "F", "u", "j",
                               "i", "f", "i", "l", "m">>,
                  !.is_data = FALSE]
        c1 == IF has_transform_id(g, t)
              THEN [c0 EXCEPT !.aces_transform_id = transform_id(g, t)]
              ELSE c0
        c2 == IF t = Empty
              THEN [c1 EXCEPT !.allocation_type = "UNIFORM",
                              !.allocation_vars = <<0, 1>>]
              ELSE c1
    IN  [c2 EXCEPT !.to_reference_transforms = <<>>]

\* SamplePoint with Python 2's integer division (no __future__ division)
SamplePoint_floor(c, n) == [m |-> (c \div (n - 1)) * Scale, r |-> 0]

\* the point the sampler evaluates for loop index c: c / (lut_resolution_1D - 1)
SamplePoint(c, n) == TrueDiv(c, n - 1)

\* the loop of lines 97-98 divides by zero: range(n) is not empty and n - 1 = 0
SamplerRaises(n) == n >= 1 /\ n - 1 = 0

\* array.array('f', '\0' * n * 4): n zeros, none when n <= 0
ZeroArray(n) == [i \in 1 .. n |-> 0]

\* the array after the loop of lines 97-98 (index c of the code is i - 1)
Sampled(n) ==
    [i \in 1 .. n |-> ToFloat32(FLog_to_linear(SamplePoint(i - 1, n)))]

\* '{0}_to_linear.spi1d'.format(transfer_function)
lut(t) ==
    t \o <<"_", "t", "o", "_", "l", "i", "n", "e", "a", "r", ".", "s", "p",
           "i", "1", "d">>

\* the arguments of genlut.write_SPI_1D at lines 101-102
WriterCall(t, d, n, samples) ==
    [path |-> pathjoin(d, lut(t)), from_min |-> 0, from_max |-> 1,
     data |-> samples, entries |-> n, channels |-> 1]

\* IsCurve taking every non-empty transfer function for the F-Log curve
IsCurve_nonempty(t) == t # Empty

\* whether the curve branch of line 95 is taken
IsCurve(t) == t = FLogName

\* whether the gamut branch of line 111 is taken
IsGamut(g) == g = FGamutName

\* the step appended at lines 104-109
LutFileStep(t) ==
    [type |-> "lutFile", path |-> lut(t), interpolation |-> "linear",
     direction |-> "forward"]

\* the camera gamut to ACES matrix of lines 116-120, in units of 10^-6
FGamutToACES ==
    << 678891, 158868, 162240,
        45571, 860713,  93716,
         -486,  25060, 975426 >>

mat44_from_mat33(m) ==
    << m[1], m[2], m[3], 0,
       m[4], m[5], m[6], 0,
       m[7], m[8], m[9], 0,
       0, 0, 0, Scale >>

\* the step appended at lines 112-123
MatrixStep ==
    [type |-> "matrix", matrix |-> mat44_from_mat33(FGamutToACES),
     direction |-> "forward"]

\* Epilogue with the matrix step put first in the chain
Epilogue_prepend(c0, g) ==
    LET c1 == IF IsGamut(g)
              THEN [c0 EXCEPT !.to_reference_transforms = <<MatrixStep>> \o @]
              ELSE c0
    IN  [c1 EXCEPT !.from_reference_transforms = <<>>]

\* lines 111-126: the gamut branch and the end of create_FLog
Epilogue(c0, g) ==
    LET c1 == IF IsGamut(g)
              THEN [c0 EXCEPT !.to_reference_transforms = Append(@, MatrixStep)]
              ELSE c0
    IN  [c1 EXCEPT !.from_reference_transforms = <<>>]

\* create_FLog returns descriptor c to its caller: the caller of the module,
\* or create_colorspaces at line 151 or 156, which appends it and goes on
Return(ent, list, c) ==
    IF ent = "create_FLog"
    THEN /\ pc' = "returned"
         /\ colorspaces' = list
         /\ result' = <<c>>
    ELSE /\ colorspaces' = Append(list, c)
         /\ pc' = IF Len(list) = 0 THEN "line154" ELSE "returned"
         /\ result' = IF Len(list) = 0 THEN <<>> ELSE Append(list, c)

\* create_FLog(g, t, d, n, al) runs from line 52 to the writer call of line
\* 101, or to its end when no LUT is written
Enter(ent, list, calls, wcalls, g, t, d, n, al) ==
    /\ gamut' = g
    /\ transfer_function' = t
    /\ lut_directory' = d
    /\ lut_resolution_1D' = n
    /\ aliases' = al
    /\ flogCalls' = Append(calls, [gamut |-> g, transfer_function |-> t,
                                   lut_directory |-> d,
                                   lut_resolution_1D |-> n, aliases |-> al])
    /\ IF IsCurve(t)
       THEN IF SamplerRaises(n)
            THEN /\ cs' = Prologue(g, t, al)
                 /\ data' = ZeroArray(n)
                 /\ writerCalls' = wcalls
                 /\ pc' = "raised"
                 /\ exc' = "ZeroDivisionError"
                 /\ colorspaces' = list
                 /\ result' = <<>>
            ELSE /\ cs' = Prologue(g, t, al)
                 /\ data' = Sampled(n)
                 /\ writerCalls' = Append(wcalls, WriterCall(t, d, n, Sampled(n)))
                 /\ pc' = "writing"
                 /\ exc' = "none"
                 /\ colorspaces' = list
                 /\ result' = <<>>
       ELSE /\ cs' = Epilogue(Prologue(g, t, al), g)
            /\ data' = <<>>
            /\ writerCalls' = wcalls
            /\ exc' = "none"
            /\ Return(ent, list, Epilogue(Prologue(g, t, al), g))

Resolutions == (0 - NegRes) .. MaxRes

\* the caller calls create_FLog; calls share no state, so a behaviour holds one
create_FLog(g, t, d, n, al) ==
    /\ pc = "idle"
    /\ entry' = "create_FLog"
    /\ Enter("create_FLog", <<>>, <<>>, <<>>, g, t, d, n, al)
    /\ UNCHANGED <<batch, writerResults, f_log, linear>>

\* write_SPI_1D returns: lines 104-126, then the caller of create_FLog
write_SPI_1D_returns ==
    /\ pc = "writing"
    /\ LET c1 == [cs EXCEPT !.to_reference_transforms =
                                Append(@, LutFileStep(transfer_function))]
           c2 == Epilogue(c1, gamut)
       IN  /\ cs' = c2
           /\ Return(entry, colorspaces, c2)
    /\ writerResults' = Append(writerResults, "returned")
    /\ UNCHANGED <<entry, batch, gamut, transfer_function, lut_directory,
                   lut_resolution_1D, aliases, data, writerCalls, flogCalls,
                   exc, f_log, linear>>

\* write_SPI_1D_raises with the error swallowed: create_FLog goes on
write_SPI_1D_raises_swallowed ==
    /\ pc = "writing"
    /\ LET c1 == [cs EXCEPT !.to_reference_transforms =
                                Append(@, LutFileStep(transfer_function))]
           c2 == Epilogue(c1, gamut)
       IN  /\ cs' = c2
           /\ Return(entry, colorspaces, c2)
    /\ writerResults' = Append(writerResults, "raised")
    /\ UNCHANGED <<entry, batch, gamut, transfer_function, lut_directory,
                   lut_resolution_1D, aliases, data, writerCalls, flogCalls,
                   exc, f_log, linear>>

\* write_SPI_1D raises: nothing catches it in create_FLog or create_colorspaces
write_SPI_1D_raises ==
    /\ pc = "writing"
    /\ pc' = "raised"
    /\ exc' = "IOError"
    /\ writerResults' = Append(writerResults, "raised")
    /\ UNCHANGED <<entry, batch, gamut, transfer_function, lut_directory,
                   lut_resolution_1D, aliases, cs, data, colorspaces,
                   writerCalls, flogCalls, result, f_log, linear>>

(***************************************************************************)
(* create_colorspaces.                                                     *)
(***************************************************************************)
\* the caller calls create_colorspaces: lines 146-150
create_colorspaces(d, n) ==
    /\ pc = "idle"
    /\ entry' = "create_colorspaces"
    /\ batch' = [lut_directory |-> d, lut_resolution_1D |-> n]
    /\ Enter("create_colorspaces", <<>>, <<>>, <<>>, FGamutName, FLogName,
             d, n, <<"flog_fgamut">>)
    /\ UNCHANGED <<writerResults, f_log, linear>>

\* create_colorspaces_154 with the gamut of the first call passed again
create_colorspaces_154_same_gamut ==
    /\ pc = "line154"
    /\ Enter("create_colorspaces", colorspaces, flogCalls, writerCalls,
             FGamutName, FLogName, batch.lut_directory,
             batch.lut_resolution_1D, <<"crv_flog">>)
    /\ UNCHANGED <<entry, batch, writerResults, f_log, linear>>

\* lines 154-155: the second call, "Linearization Only"
create_colorspaces_154 ==
    /\ pc = "line154"
    /\ Enter("create_colorspaces", colorspaces, flogCalls, writerCalls, Empty,
             FLogName, batch.lut_directory, batch.lut_resolution_1D,
             <<"crv_flog">>)
    /\ UNCHANGED <<entry, batch, writerResults, f_log, linear>>

Init ==
    /\ pc = "idle"
    /\ entry = "none"
    /\ batch = [lut_directory |-> Empty, lut_resolution_1D |-> 0]
    /\ gamut = Empty
    /\ transfer_function = Empty
    /\ lut_directory = Empty
    /\ lut_resolution_1D = 0
    /\ aliases = <<>>
    /\ cs = ColorSpace(Empty)
    /\ data = <<>>
    /\ colorspaces = <<>>
    /\ writerCalls = <<>>
    /\ writerResults = <<>>
    /\ flogCalls = <<>>
    /\ result = <<>>
    /\ exc = "none"
    /\ f_log = [m |-> 0, r |-> 0]
    /\ linear = 0

Next ==
    \/ \E g \in Names, t \in Names, d \in Directories, n \in Resolutions,
          al \in AliasLists : create_FLog(g, t, d, n, al)
    \/ \E d \in Directories, n \in Resolutions : create_colorspaces(d, n)
    \/ create_colorspaces_154
    \/ write_SPI_1D_returns
    \/ write_SPI_1D_raises

Spec == Init /\ [][Next]_vars

(***************************************************************************)
(* FLog_to_linear exercised alone, on a grid of arguments from below 0 to  *)
(* above 1 and on cut2 and its two neighbours.                             *)
(***************************************************************************)
GridStep == Scale \div 40

cut2Below == [m |-> 100537, r |-> 775223864]

cut2Above == [m |-> 100537, r |-> 775223866]

Inputs ==
    {[m |-> k * GridStep, r |-> 0] : k \in (0 - GridLow) .. GridHigh}
    \cup {cut2Below, cut2, cut2Above}

InitEval ==
    /\ pc = "idle"
    /\ entry = "FLog_to_linear"
    /\ batch = [lut_directory |-> Empty, lut_resolution_1D |-> 0]
    /\ gamut = Empty
    /\ transfer_function = Empty
    /\ lut_directory = Empty
    /\ lut_resolution_1D = 0
    /\ aliases = <<>>
    /\ cs = ColorSpace(Empty)
    /\ data = <<>>
    /\ colorspaces = <<>>
    /\ writerCalls = <<>>
    /\ writerResults = <<>>
    /\ flogCalls = <<>>
    /\ result = <<>>
    /\ exc = "none"
    /\ f_log \in Inputs
    /\ linear = 0

\* lines 75-90: one evaluation
FLog_to_linear_call ==
    /\ pc = "idle"
    /\ entry = "FLog_to_linear"
    /\ linear' = FLog_to_linear(f_log)
    /\ pc' = "returned"
    /\ UNCHANGED <<entry, batch, gamut, transfer_function, lut_directory,
                   lut_resolution_1D, aliases, cs, data, colorspaces,
                   writerCalls, writerResults, flogCalls, result, exc, f_log>>

NextEval == FLog_to_linear_call

SpecEval == InitEval /\ [][NextEval]_vars
(***************************************************************************)
(* Properties.                                                             *)
(***************************************************************************)
\* the descriptors create_FLog has returned, each with the call it answers
Returned ==
    IF entry = "create_FLog"
    THEN (IF pc = "returned" THEN {<<flogCalls[1], result[1]>>} ELSE {})
    ELSE IF entry = "create_colorspaces"
    THEN {<<flogCalls[i], colorspaces[i]>> : i \in 1 .. Len(colorspaces)}
    ELSE {}

Called == entry \in {"create_FLog", "create_colorspaces"} /\ pc # "idle"

Types(chain) == [i \in 1 .. Len(chain) |-> chain[i].type]

Count(chain, ty) == Cardinality({i \in 1 .. Len(chain) : chain[i].type = ty})

Abs(v) == IF v < 0 THEN 0 - v ELSE v

\* C1: in every descriptor create_FLog returns no matrix step precedes a
\* lutFile step, and for gamut 'F-Gamut' with transfer function 'F-Log' the
\* chain is exactly [lutFile, matrix], both steps forward.
C1_ChainOrder ==
    \A p \in Returned :
        LET chain == p[2].to_reference_transforms
        IN  /\ \A i \in 1 .. Len(chain), j \in 1 .. Len(chain) :
                   (chain[i].type = "matrix" /\ chain[j].type = "lutFile")
                       => j < i
            /\ (p[1].gamut = FGamutName /\ p[1].transfer_function = FLogName)
                   => /\ Types(chain) = <<"lutFile", "matrix">>
                      /\ chain[1].direction = "forward"
                      /\ chain[2].direction = "forward"

C1_Witness ==
    /\ pc = "returned"
    /\ entry = "create_FLog"
    /\ gamut = FGamutName
    /\ transfer_function = FLogName
    /\ lut_resolution_1D >= 2
    /\ Len(result[1].to_reference_transforms) = 2

\* C2: every call of create_FLog with transfer function 'F-Log' and a
\* resolution below 2 ends in a fatal error: the LUT writer is never invoked
\* and no descriptor is returned.
C2_FatalBelowTwo ==
    (Called /\ entry = "create_FLog" /\ transfer_function = FLogName
        /\ lut_resolution_1D < 2)
        => (pc = "raised" /\ writerCalls = <<>> /\ result = <<>>)

\* C3: a failure of the LUT writer reaches the caller as it is, the writer is
\* not called again, and nothing is returned: neither a descriptor nor the list
\* of create_colorspaces; a returned descriptor with a lutFile step had its
\* writer call succeed.
C3_WriterFailure ==
    /\ exc = "IOError" => (pc = "raised" /\ result = <<>>)
    /\ \A i \in 1 .. Len(writerResults) :
           writerResults[i] = "raised"
               => /\ i = Len(writerResults)
                  /\ Len(writerCalls) = i
                  /\ pc = "raised"
                  /\ exc = "IOError"
                  /\ result = <<>>
    /\ Len(writerCalls) <= Len(flogCalls)
    /\ (pc = "returned" /\ entry = "create_FLog"
           /\ Count(result[1].to_reference_transforms, "lutFile") > 0)
           => writerResults = <<"returned">>
    /\ entry = "create_colorspaces"
           => /\ \A i \in 1 .. Len(colorspaces) :
                     Count(colorspaces[i].to_reference_transforms, "lutFile") > 0
                         => (i <= Len(writerResults)
                                /\ writerResults[i] = "returned")
              /\ result # <<>>
                     => (result = colorspaces
                            /\ \A i \in 1 .. Len(writerResults) :
                                   writerResults[i] = "returned")

C3_Witness ==
    /\ pc = "raised"
    /\ exc = "IOError"
    /\ entry = "create_colorspaces"
    /\ writerResults = <<"returned", "raised">>
    /\ result = <<>>

\* C4: the descriptor create_FLog returns has aces_transform_id set if and
\* only if gamut and transfer_function are both non-empty.
C4_TransformIdIff ==
    \A p \in Returned :
        (p[2].aces_transform_id # None)
            <=> (p[1].gamut # <<>> /\ p[1].transfer_function # <<>>)

C4_Witness ==
    /\ pc = "returned"
    /\ entry = "create_FLog"
    /\ gamut = FGamutName
    /\ transfer_function = Empty
    /\ result[1].aces_transform_id = None

\* C5: a returned descriptor has one lutFile step when transfer_function is
\* 'F-Log' and none otherwise, one matrix step when gamut is 'F-Gamut' and
\* none otherwise; a transfer function that is not 'F-Log' raises nothing and
\* invokes no writer, a gamut that is not 'F-Gamut' adds no error and no writer
\* call of its own, and the descriptor is returned with the shorter chain.
C5_RecognizedNamesOnly ==
    /\ \A p \in Returned :
           LET chain == p[2].to_reference_transforms
           IN  /\ Count(chain, "lutFile")
                      = (IF p[1].transfer_function = FLogName THEN 1 ELSE 0)
               /\ Count(chain, "matrix")
                      = (IF p[1].gamut = FGamutName THEN 1 ELSE 0)
               /\ Len(chain) = Count(chain, "lutFile") + Count(chain, "matrix")
    /\ (Called /\ entry = "create_FLog" /\ transfer_function # FLogName)
           => /\ pc = "returned"
              /\ exc = "none"
              /\ writerCalls = <<>>
    /\ (Called /\ entry = "create_FLog")
           => /\ Len(writerCalls) <= 1
              /\ (exc # "none" \/ writerCalls # <<>>)
                     => transfer_function = FLogName

C5_Witness ==
    /\ pc = "returned"
    /\ entry = "create_FLog"
    /\ gamut = WideGamutName
    /\ transfer_function = SLog3Name
    /\ result[1].to_reference_transforms = <<>>
    /\ writerCalls = <<>>

C6_ExpectedCalls ==
    << [gamut |-> FGamutName, transfer_function |-> FLogName],
       [gamut |-> <<>>, transfer_function |-> FLogName] >>

\* C6: create_colorspaces calls create_FLog twice, first with 'F-Gamut' and
\* 'F-Log', then with '' and 'F-Log', both with its own lut_directory and
\* lut_resolution_1D, and returns the two descriptors in that order:
\* 'F-Log - F-Gamut' with chain [lutFile, matrix], then 'Curve - F-Log' with
\* chain [lutFile] and no transform id.
C6_BatchOfTwo ==
    entry = "create_colorspaces"
        => /\ Len(flogCalls) <= 2
           /\ \A i \in 1 .. Len(flogCalls) :
                  /\ flogCalls[i].gamut = C6_ExpectedCalls[i].gamut
                  /\ flogCalls[i].transfer_function
                         = C6_ExpectedCalls[i].transfer_function
                  /\ flogCalls[i].lut_directory = batch.lut_directory
                  /\ flogCalls[i].lut_resolution_1D = batch.lut_resolution_1D
           /\ pc = "returned"
                  => /\ Len(flogCalls) = 2
                     /\ Len(result) = 2
                     /\ result[1].name =
                            <<"F", "-", "L", "o", "g", " ", "-", " ", "F",
                              "-", "G", "a", "m", "u", "t">>
                     /\ Types(result[1].to_reference_transforms)
                            = <<"lutFile", "matrix">>
                     /\ result[2].name =
                            <<"C", "u", "r", "v", "e", " ", "-", " ", "F",
                              "-", "L", "o", "g">>
                     /\ Types(result[2].to_reference_transforms) = <<"lutFile">>
                     /\ result[2].aces_transform_id = None

C6_Witness ==
    /\ entry = "create_colorspaces"
    /\ pc = "returned"
    /\ batch.lut_resolution_1D = 3
    /\ Len(result) = 2
    /\ Len(flogCalls) = 2

C7_ExpectedName(g, t) ==
    IF g = <<>>
    THEN <<"C", "u", "r", "v", "e", " ", "-", " ">> \o t
    ELSE IF t = <<>>
    THEN <<"L", "i", "n", "e", "a", "r", " ", "-", " ">> \o g
    ELSE t \o <<" ", "-", " ">> \o g

\* C7: the name is 'Curve - <transfer_function>' when gamut is empty (also
\* when both are empty), otherwise 'Linear - <gamut>' when transfer_function
\* is empty, otherwise '<transfer_function> - <gamut>', whatever the other
\* arguments are.
C7_Name ==
    /\ Called => cs.name = C7_ExpectedName(gamut, transfer_function)
    /\ \A p \in Returned :
           p[2].name = C7_ExpectedName(p[1].gamut, p[1].transfer_function)

C7_Witness ==
    /\ pc = "returned"
    /\ entry = "create_FLog"
    /\ gamut = <<>>
    /\ transfer_function = <<>>
    /\ result[1].name = <<"C", "u", "r", "v", "e", " ", "-", " ">>

C8_Without(s, dropped) == SelectSeq(s, LAMBDA ch : ch \notin dropped)

C8_Underscored(s) == [i \in 1 .. Len(s) |-> IF s[i] = " " THEN "_" ELSE s[i]]

C8_Id(T, G) ==
    <<"I", "D", "T", ".", "F", "u", "j", "i", "f", "i", "l", "m", ".">>
    \o T \o <<"_">> \o G
    \o <<"_", "1", "0", "i", ".", "a", "1", ".", "v", "1">>

\* C8 (as stated): when the transform id is set it is
\* 'IDT.Fujifilm.<T>_<G>_10i.a1.v1', <T> the transfer function and <G> the
\* gamut, each with every hyphen and every space removed.
C8_HyphensAndSpacesRemoved ==
    \A p \in Returned :
        p[2].aces_transform_id # None
            => p[2].aces_transform_id
                   = C8_Id(C8_Without(p[1].transfer_function, {"-", " "}),
                           C8_Without(p[1].gamut, {"-", " "}))

\* C8 (amended): when the transform id is set it is
\* 'IDT.Fujifilm.<T>_<G>_10i.a1.v1', <T> the transfer function with every
\* hyphen removed and its spaces kept, <G> the gamut with every hyphen removed
\* and every space replaced by an underscore; for 'F-Log' and 'F-Gamut' it is
\* 'IDT.Fujifilm.FLog_FGamut_10i.a1.v1'.
C8_HyphensRemovedSpacesKept ==
    \A p \in Returned :
        /\ p[2].aces_transform_id # None
               => p[2].aces_transform_id
                      = C8_Id(C8_Without(p[1].transfer_function, {"-"}),
                              C8_Underscored(C8_Without(p[1].gamut, {"-"})))
        /\ (p[1].gamut = FGamutName /\ p[1].transfer_function = FLogName)
               => p[2].aces_transform_id =
                      <<"I", "D", "T", ".", "F", "u", "j", "i", "f", "i",
                        "l", "m", ".", "F", "L", "o", "g", "_", "F", "G",
                        "a", "m", "u", "t", "_", "1", "0", "i", ".", "a",
                        "1", ".", "v", "1">>

C8_Witness ==
    /\ pc = "returned"
    /\ entry = "create_FLog"
    /\ gamut = WideGamutName
    /\ transfer_function = SLog3Name
    /\ result[1].aces_transform_id =
          <<"I", "D", "T", ".", "F", "u", "j", "i", "f", "i", "l", "m",
            ".", "S", "L", "o", "g", " ", "3", "_", "F", "_", "G", "a",
            "m", "u", "t", "C", "_", "1", "0", "i", ".", "a", "1", ".",
            "v", "1">>

C9_FileName ==
    <<"F", "-", "L", "o", "g", "_", "t", "o", "_", "l", "i", "n", "e",
      "a", "r", ".", "s", "p", "i", "1", "d">>

C9_Path(d) ==
    IF d = <<>> THEN C9_FileName
    ELSE IF d = <<"l", "u", "t", "s">> THEN d \o <<"/">> \o C9_FileName
    ELSE d \o C9_FileName

\* C9: for lut_resolution_1D = N >= 2 and transfer function 'F-Log',
\* create_FLog calls the LUT writer once, with N samples of which sample i is
\* FLog_to_linear at i / (N - 1) (as array.array('f') holds it), so the first
\* is taken at 0 and the last at 1, with domain 0 to 1, resolution N, one
\* channel and the path lut_directory joined with 'F-Log_to_linear.spi1d'.
C9_SamplerHandsOver ==
    \A k \in 1 .. Len(flogCalls) :
        LET call == flogCalls[k]
            N == call.lut_resolution_1D
        IN  (call.transfer_function = FLogName /\ N >= 2)
                => /\ Len(writerCalls) >= k
                   /\ Len(writerCalls) <= Len(flogCalls)
                   /\ LET w == writerCalls[k]
                      IN  /\ Len(w.data) = N
                          /\ \A i \in 0 .. N - 1 :
                                 w.data[i + 1]
                                     = ToFloat32(FLog_to_linear(TrueDiv(i, N - 1)))
                          /\ w.data[1] = FLog_to_linear([m |-> 0, r |-> 0])
                          /\ w.data[N] = FLog_to_linear([m |-> Scale, r |-> 0])
                          /\ \A i \in 1 .. N - 1 : w.data[i] < w.data[i + 1]
                          /\ w.from_min = 0
                          /\ w.from_max = 1
                          /\ w.entries = N
                          /\ w.channels = 1
                          /\ w.path = C9_Path(call.lut_directory)

C9_Witness ==
    /\ pc = "writing"
    /\ entry = "create_FLog"
    /\ transfer_function = FLogName
    /\ lut_resolution_1D = 4
    /\ Len(writerCalls) = 1
    /\ Len(writerCalls[1].data) = 4

Epsilon == Scale \div 10000

C10_AtOrAbove(x) == x.m > 100537 \/ (x.m = 100537 /\ x.r >= 775223865)

C10_Exp(x) ==
    DivF(Pow10(DivF(x.m - 790453, 344676)), 555556) - DivF(9468, 555556)

C10_Lin(x) == DivF(x.m - 92864, 8735631)

====
